---- MODULE Spec2Model ----
(***************************************************************************)
(* Monitor de Criptomoedas (luis31dias/monitor_cripto).                    *)
(*                                                                         *)
(* The store file is modelled as the text it holds: a sequence of          *)
(* characters.  A price is an integer number of thousandths of a dollar    *)
(* (50000.567 is 50000567).  A datetime is a record [s, aware, off]: the   *)
(* second of the clock, whether it carries a tzinfo, and its UTC offset in *)
(* hours (0 for a naive datetime); the date, hour and minute are the same  *)
(* for every timestamp of the model and are left out of its ISO text,      *)
(* which is "T", the two digits of the second and, for an aware datetime,  *)
(* the offset "+HH:00".  A conversion that can raise returns a record      *)
(* [ok, v]: ok is FALSE where the Python call raises.                      *)
(* The line terminator "\r\n" of the csv module is the one character NL.   *)
(***************************************************************************)
EXTENDS Integers, Sequences, FiniteSets, TLC

\* ------------------------------------------------------------------ text

NL == "\n"
Q == "\""
COMMA == ","

Digits == <<"0", "1", "2", "3", "4", "5", "6", "7", "8", "9">>

DigitChars == {Digits[i] : i \in 1..10}

DigitVal(c) == (CHOOSE i \in 1..10 : Digits[i] = c) - 1

Abs(n) == IF n < 0 THEN -n ELSE n

\* str(n) of a natural number
RECURSIVE NatText(_)
NatText(n) == IF n < 10 THEN <<Digits[n + 1]>>
              ELSE NatText(n \div 10) \o <<Digits[(n % 10) + 1]>>

TwoDigits(n) == <<Digits[(n \div 10) + 1], Digits[(n % 10) + 1]>>

\* int(text) of a non-empty sequence of digits
RECURSIVE DigitsVal(_)
DigitsVal(t) == IF t = <<>> THEN 0
                ELSE 10 * DigitsVal(SubSeq(t, 1, Len(t) - 1)) + DigitVal(t[Len(t)])

AllDigits(t) == \A i \in 1..Len(t) : t[i] \in DigitChars

\* The position of the first c in t, 0 when there is none.
IndexOf(t, c) == IF \E i \in 1..Len(t) : t[i] = c
                 THEN CHOOSE i \in 1..Len(t) : t[i] = c /\ \A j \in 1..(i - 1) : t[j] # c
                 ELSE 0

IsPrefix(s, t) == Len(s) <= Len(t) /\ SubSeq(t, 1, Len(s)) = s

\* ------------------------------------------------- f"{preco:.2f}", float()

\* Cutting the third decimal off, in place of rounding.
RoundCentsTrunc(m) == m \div 10

\* A price of m thousandths rounded to cents as the float formatting rounds it.
\* A thousandths value ending in 5 is a tie only when the double holds it
\* exactly (m % 250 = 125: .125 .375 .625 .875), and an exact tie goes to the
\* even cent; the prices of the model hold no other value ending in 5.
RoundCents(m) ==
    LET q == m \div 10
        r == m % 10
    IN  IF r < 5 THEN q
        ELSE IF r > 5 THEN q + 1
        ELSE IF q % 2 = 0 THEN q ELSE q + 1

\* f"{preco:.2f}"
Fmt2(m) ==
    LET c == RoundCents(Abs(m))
    IN  (IF m < 0 THEN <<"-">> ELSE <<>>)
        \o NatText(c \div 100) \o <<".">> \o TwoDigits(c % 100)

\* Digits left as they are, without a separator.
SemAgrupar(t) == t

\* The "," of the format: the digits t of the integer part with a comma in
\* front of every group of three counted from the right.
RECURSIVE Agrupar(_)
Agrupar(t) ==
    IF Len(t) <= 3 THEN t
    ELSE Agrupar(SubSeq(t, 1, Len(t) - 3)) \o <<COMMA>> \o SubSeq(t, Len(t) - 2, Len(t))

\* formatar_preco(valor): f"${valor:,.2f}", valor in thousandths
formatar_preco(m) ==
    LET c == RoundCents(Abs(m))
    IN  <<"$">> \o (IF m < 0 THEN <<"-">> ELSE <<>>)
        \o Agrupar(NatText(c \div 100)) \o <<".">> \o TwoDigits(c % 100)

\* float(text), in thousandths: an optional sign, digits, and an optional
\* point with up to three digits behind it; ok is FALSE for ValueError.
ParseFloat(t) ==
    LET signed == t # <<>> /\ t[1] \in {"-", "+"}
        u == IF signed THEN Tail(t) ELSE t
        p == IndexOf(u, ".")
        ip == IF p = 0 THEN u ELSE SubSeq(u, 1, p - 1)
        fp == IF p = 0 THEN <<>> ELSE SubSeq(u, p + 1, Len(u))
        pad == fp \o SubSeq(<<"0", "0", "0">>, 1, 3 - Len(fp))
    IN  IF /\ AllDigits(ip) /\ AllDigits(fp) /\ Len(fp) <= 3
           /\ Len(ip) + Len(fp) > 0
        THEN [ok |-> TRUE,
              v |-> (IF signed /\ t[1] = "-" THEN -1 ELSE 1)
                    * (1000 * DigitsVal(ip) + DigitsVal(pad))]
        ELSE [ok |-> FALSE, v |-> 0]

\* ------------------------------------- datetime.isoformat, fromisoformat

\* horario.isoformat()
isoformat(h) ==
    <<"T">> \o TwoDigits(h.s)
    \o (IF ~h.aware THEN <<>>
        ELSE <<(IF h.off < 0 THEN "-" ELSE "+")>> \o TwoDigits(Abs(h.off))
             \o <<":", "0", "0">>)

NoDate == [s |-> 0, aware |-> FALSE, off |-> 0]

\* datetime.fromisoformat(text); ok is FALSE for ValueError.
fromisoformat(t) ==
    IF /\ Len(t) \in {3, 9}
       /\ t[1] = "T"
       /\ AllDigits(SubSeq(t, 2, 3))
       /\ DigitsVal(SubSeq(t, 2, 3)) < 60
       /\ Len(t) = 9 =>
            /\ t[4] \in {"+", "-"}
            /\ AllDigits(SubSeq(t, 5, 6))
            /\ DigitsVal(SubSeq(t, 5, 6)) < 24
            /\ SubSeq(t, 7, 9) = <<":", "0", "0">>
    THEN [ok |-> TRUE,
          v |-> [s |-> DigitsVal(SubSeq(t, 2, 3)),
                 aware |-> Len(t) = 9,
                 off |-> IF Len(t) = 3 THEN 0
                         ELSE (IF t[4] = "-" THEN -1 ELSE 1)
                              * DigitsVal(SubSeq(t, 5, 6))]]
    ELSE [ok |-> FALSE, v |-> NoDate]

\* ------------------------------------------------------ csv.writer

Specials == {COMMA, Q, NL}

\* A field with every quote doubled.
RECURSIVE DoubleQuotes(_)
DoubleQuotes(t) ==
    IF t = <<>> THEN <<>>
    ELSE (IF t[1] = Q THEN <<Q, Q>> ELSE <<t[1]>>) \o DoubleQuotes(Tail(t))

\* QUOTE_MINIMAL: a field is quoted only when it holds a special character.
QuoteField(t) ==
    IF \E i \in 1..Len(t) : t[i] \in Specials
    THEN <<Q>> \o DoubleQuotes(t) \o <<Q>>
    ELSE t

RECURSIVE JoinFields(_)
JoinFields(fs) ==
    IF fs = <<>> THEN <<>>
    ELSE IF Len(fs) = 1 THEN QuoteField(fs[1])
    ELSE QuoteField(fs[1]) \o <<COMMA>> \o JoinFields(Tail(fs))

\* escritor.writerow(fields): the text of one line
writerow(fs) == JoinFields(fs) \o <<NL>>

\* ------------------------------------------------------ csv.reader

\* The reader's automaton (Modules/_csv.c, parse_process_char).  a is its
\* state: a.st is "SR" start of record, "SF" start of field, "IF" in field,
\* "IQ" in quoted field or "QQ" quote in quoted field; a.rows are the finished
\* records, a.row the fields of the record being read, a.fld the field being
\* read.  A line end inside a quoted field is part of the field.
CsvState(st, rows, row, fld) == [st |-> st, rows |-> rows, row |-> row, fld |-> fld]

CsvStep(a, c) ==
    CASE a.st = "SR" /\ c = NL -> CsvState("SR", Append(a.rows, <<>>), <<>>, <<>>)
      [] a.st \in {"SR", "SF"} /\ c = Q -> CsvState("IQ", a.rows, a.row, <<>>)
      [] a.st \in {"SR", "SF"} /\ c = COMMA ->
             CsvState("SF", a.rows, Append(a.row, <<>>), <<>>)
      [] a.st = "SF" /\ c = NL ->
             CsvState("SR", Append(a.rows, Append(a.row, <<>>)), <<>>, <<>>)
      [] a.st \in {"SR", "SF"} /\ c \notin Specials -> CsvState("IF", a.rows, a.row, <<c>>)
      [] a.st \in {"IF", "QQ"} /\ c = NL ->
             CsvState("SR", Append(a.rows, Append(a.row, a.fld)), <<>>, <<>>)
      [] a.st \in {"IF", "QQ"} /\ c = COMMA ->
             CsvState("SF", a.rows, Append(a.row, a.fld), <<>>)
      [] a.st = "IF" /\ c \notin {NL, COMMA} ->
             CsvState("IF", a.rows, a.row, Append(a.fld, c))
      [] a.st = "IQ" /\ c = Q -> CsvState("QQ", a.rows, a.row, a.fld)
      [] a.st = "IQ" /\ c # Q -> CsvState("IQ", a.rows, a.row, Append(a.fld, c))
      [] a.st = "QQ" /\ c = Q -> CsvState("IQ", a.rows, a.row, Append(a.fld, Q))
      [] a.st = "QQ" /\ c \notin Specials ->
             CsvState("IF", a.rows, a.row, Append(a.fld, c))

\* The automaton run from the state a over t[lo..hi], the first half of the
\* range and then the second: the state it ends in.
RECURSIVE CsvRun(_, _, _, _)
CsvRun(t, lo, hi, a) ==
    IF lo > hi THEN a
    ELSE IF lo = hi THEN CsvStep(a, t[lo])
    ELSE LET mid == (lo + hi) \div 2
             b == CsvRun(t, lo, mid, a)
         IN  \* (b.st is never empty: the test has the first half run first)
             IF b.st = "" THEN b ELSE CsvRun(t, mid + 1, hi, b)

\* list(csv.reader(ponteiro)): the records of the text, an empty line being
\* <<>>.  At the end of the input a pending record is returned as it stands.
CsvRows(t) ==
    LET a == CsvRun(t, 1, Len(t), CsvState("SR", <<>>, <<>>, <<>>))
    IN  IF a.st = "SR" THEN a.rows ELSE Append(a.rows, Append(a.row, a.fld))

\* ------------------------------------------------- the store file

DATA_HORA == <<"d", "a", "t", "a", "_", "h", "o", "r", "a">>
MOEDA == <<"m", "o", "e", "d", "a">>
PRECO == <<"p", "r", "e", "c", "o">>
BTC == <<"B", "T", "C">>
ETH == <<"E", "T", "H">>

\* ["data_hora", "moeda", "preco"]
Cabecalho == <<DATA_HORA, MOEDA, PRECO>>

\* The file system's view of ARQUIVO_HISTORICO: whether the path exists, and
\* the text the file holds.
SemArquivo == [existe |-> FALSE, texto |-> <<>>]

\* A mode "w" in place of "a" would truncate.
AbrirTruncando(d) == [existe |-> TRUE, texto |-> <<>>]

\* open(arquivo, "a"): the path exists afterwards, its text is kept.
AbrirAppend(d) == [existe |-> TRUE, texto |-> d.texto]

\* A close that drops what the writer buffered.
FecharSemEscrever(d, b) == [existe |-> TRUE, texto |-> d.texto]

\* Leaving the with block closes ponteiro: what the writer buffered reaches
\* the file, after what the file held.
Fechar(d, b) == [existe |-> TRUE, texto |-> d.texto \o b]

\* escritor.writerow(["data_hora", "moeda", "preco"])
LinhaCabecalho == writerow(Cabecalho)

\* escritor.writerow([horario.isoformat(), moeda, f"{preco:.2f}"])
LinhaDados(h, m, p) == writerow(<<isoformat(h), m, Fmt2(p)>>)

\* A writer that puts the header in front of every line it writes.
EscreverCabecalhoSempre(d) == TRUE

\* escrever_cabecalho = not os.path.exists(arquivo)
EscreverCabecalho(d) == ~d.existe

\* salvar_cotacao(horario, moeda, preco, arquivo) run to its end: the file
\* afterwards.
salvar_cotacao(d, h, m, p) ==
    Fechar(AbrirAppend(d),
           (IF EscreverCabecalho(d) THEN LinhaCabecalho ELSE <<>>)
           \o LinhaDados(h, m, p))

\* ------------------------------------------------- csv.DictReader

NoneText == <<"None">>

\* A reader that takes the k of the canonical header by its position in the
\* record, whatever the field names of the file.
DictGetPorPosicao(fn, row, k) ==
    LET i == CHOOSE j \in 1..Len(Cabecalho) : Cabecalho[j] = k
    IN  IF i > Len(row) THEN [r |-> "None", v |-> NoneText]
        ELSE [r |-> "ok", v |-> row[i]]

\* linha[k] of the dict DictReader builds from the field names fn and the
\* record row: dict(zip(fn, row)), then None (restval) for every name beyond
\* the record's length.  r is "ok" (v is the text), "None" or "KeyError".
DictGet(fn, row, k) ==
    LET beyond == {i \in 1..Len(fn) : i > Len(row) /\ fn[i] = k}
        within == {i \in 1..Len(fn) : i <= Len(row) /\ fn[i] = k}
    IN  IF beyond # {} THEN [r |-> "None", v |-> NoneText]
        ELSE IF within # {}
             THEN [r |-> "ok", v |-> row[CHOOSE i \in within : \A j \in within : j <= i]]
        ELSE [r |-> "KeyError", v |-> <<>>]

\* The body of the try block for one record: ok is FALSE where TypeError,
\* ValueError or KeyError is raised (and caught: the record is skipped).
\* moeda is looked up but not converted: a None passes.
LerLinha(fn, row) ==
    LET dh == DictGet(fn, row, DATA_HORA)
        mo == DictGet(fn, row, MOEDA)
        pr == DictGet(fn, row, PRECO)
        h == IF dh.r = "ok" THEN fromisoformat(dh.v) ELSE [ok |-> FALSE, v |-> NoDate]
        f == IF pr.r = "ok" THEN ParseFloat(pr.v) ELSE [ok |-> FALSE, v |-> 0]
    IN  [ok |-> h.ok /\ mo.r # "KeyError" /\ f.ok,
         obs |-> [horario |-> h.v, moeda |-> mo.v, preco |-> f.v]]

\* for linha in leitor: ... historico.append(...), over the records rs that
\* follow the field names; DictReader passes over the empty records.
RECURSIVE LerLinhas(_, _)
LerLinhas(fn, rs) ==
    IF rs = <<>> THEN <<>>
    ELSE LET l == LerLinha(fn, rs[1])
         IN  (IF rs[1] # <<>> /\ l.ok THEN <<l.obs>> ELSE <<>>)
             \o LerLinhas(fn, Tail(rs))

\* A test of the path that always finds it.
ExisteSempre(d) == TRUE

\* os.path.exists(arquivo)
ExisteCaminho(d) == d.existe

\* open(arquivo, newline="", encoding="utf-8"): the exception it raises, ""
\* when it opens the file.
AbrirLeitura(d) == IF d.existe THEN "" ELSE "FileNotFoundError"

\* open(arquivo, newline="", encoding="utf-8"), the mode being "r": the file
\* afterwards, which is the file as it was.
AbrirParaLer(d) == d

\* carregar_historico(arquivo): the file afterwards.  A path that does not
\* exist is not opened.
DiscoAposLeitura(d) == IF ExisteCaminho(d) THEN AbrirParaLer(d) ELSE d

\* carregar_historico(arquivo): the exception that leaves it, "" when it
\* returns.
ErroDeCarregar(d) == IF ~ExisteCaminho(d) THEN "" ELSE AbrirLeitura(d)

\* carregar_historico(arquivo): the list it returns.
carregar_historico(d) ==
    IF ~ExisteCaminho(d) \/ AbrirLeitura(d) # "" THEN <<>>
    ELSE LET rs == CsvRows(d.texto)
         IN  IF rs = <<>> THEN <<>> ELSE LerLinhas(rs[1], Tail(rs))

\* ------------------------------------------------- sorted, imprimir_historico

\* The instant of a datetime, in seconds: an aware one is compared by its
\* UTC time, a naive one by its fields.
Instante(h) == IF h.aware THEN h.s - 3600 * h.off ELSE h.s

\* Every two datetimes of s can be compared: a naive datetime against an
\* aware one raises TypeError.
Comparaveis(s) ==
    \A i, j \in 1..Len(s) : s[i].horario.aware = s[j].horario.aware

\* x put into the sorted s behind every element that is not later than x.
Inserir(s, x) ==
    LET k == Cardinality({i \in 1..Len(s) :
                            Instante(s[i].horario) <= Instante(x.horario)})
    IN  SubSeq(s, 1, k) \o <<x>> \o SubSeq(s, k + 1, Len(s))

RECURSIVE Ordenar(_)
Ordenar(s) ==
    IF s = <<>> THEN <<>>
    ELSE Inserir(Ordenar(SubSeq(s, 1, Len(s) - 1)), s[Len(s)])

\* sorted(s, key=lambda dado: dado[0]): a stable sort by the datetime; exc is
\* the exception raised, "" when there is none.
sorted(s) ==
    IF Comparaveis(s) THEN [exc |-> "", v |-> Ordenar(s)]
    ELSE [exc |-> "TypeError", v |-> <<>>]

\* imprimir_historico(historico): the lines of the table it prints, one
\* observation each, whether the notice of no record is printed, and the
\* exception that leaves it.
imprimir_historico(historico) ==
    LET o == sorted(historico)
    IN  [exc |-> o.exc,
         linhas |-> o.v,
         aviso |-> o.exc = "" /\ o.v = <<>>]

\* ------------------------------------------------- exibir_grafico

\* pontos[moeda] of exibir_grafico, for one of its two keys: the (horario,
\* preco) of the observations of that symbol, in the order of historico.
Pontos(hist, moeda) ==
    LET sel == SelectSeq(hist, LAMBDA o : o.moeda = moeda)
    IN  [i \in 1..Len(sel) |-> [horario |-> sel[i].horario, preco |-> sel[i].preco]]

\* What a call of exibir_grafico did: exc the exception that left it, msg
\* the notice it printed, series the lines it plotted (each with its symbol,
\* its points and the Y axis it is drawn against), eixos the Y axes of the
\* figure, and whether the chart was shown in a window, saved to
\* grafico_cotacoes.png, and shown again from the saved file.
ResultadoGrafico(exc, msg, series, eixos, mostrado, salvo, previa) ==
    [exc |-> exc, msg |-> msg, series |-> series, eixos |-> eixos,
     mostrado |-> mostrado, salvo |-> salvo, previa |-> previa]

NadaDesenhado(exc, msg) == ResultadoGrafico(exc, msg, <<>>, {}, FALSE, FALSE, FALSE)

\* A test that finds data in every record set, and its series always there.
NuncaSemPontos(hist) == FALSE

TracaSempre(serie) == TRUE

\* if not pontos["BTC"] and not pontos["ETH"]:
SemPontos(hist) == Pontos(hist, BTC) = <<>> /\ Pontos(hist, ETH) = <<>>

\* if serie:  /  if pontos["BTC"]:  /  if pontos["ETH"]:
TracaSerie(serie) == serie # <<>>

\* tempos, precos = zip(*sorted(serie, key=lambda dado: dado[0])) and the
\* plot of them against eixo, when the series is to be drawn: v holds the
\* line plotted, if one is.  zip(*[]) gives nothing to unpack: ValueError.
Tracar(serie, moeda, eixo) ==
    IF ~TracaSerie(serie) THEN [exc |-> "", v |-> <<>>]
    ELSE IF serie = <<>> THEN [exc |-> "ValueError", v |-> <<>>]
    ELSE LET o == sorted(serie)
         IN  [exc |-> o.exc,
              v |-> IF o.exc = ""
                    THEN <<[moeda |-> moeda, pontos |-> o.v, eixo |-> eixo]>>
                    ELSE <<>>]

\* exibir_grafico(historico) of monitor_cripto.py.  mpl: matplotlib can be
\* imported; interativo: the backend is an interactive one; le: imread reads
\* the file that was just saved.  Both series are plotted with plt.plot on
\* the axes of the one figure.
exibir_grafico(historico, mpl, interativo, le) ==
    LET b == Tracar(Pontos(historico, BTC), BTC, "unico")
        e == Tracar(Pontos(historico, ETH), ETH, "unico")
    IN  IF ~mpl THEN NadaDesenhado("", "matplotlib_indisponivel")
        ELSE IF SemPontos(historico) THEN NadaDesenhado("", "nenhum_dado")
        ELSE IF b.exc # "" THEN NadaDesenhado(b.exc, "")
        ELSE IF e.exc # "" THEN NadaDesenhado(e.exc, "")
        ELSE IF interativo
             THEN ResultadoGrafico("", "", b.v \o e.v, {"unico"}, TRUE, FALSE, FALSE)
             ELSE ResultadoGrafico("", IF le THEN "grafico_salvo"
                                             ELSE "nao_foi_possivel_carregar",
                                   b.v \o e.v, {"unico"}, FALSE, TRUE, le)

\* exibir_grafico(historico) of graphics.py: BTC against the left axis ax,
\* ETH against ax2 = ax.twinx(), which is made whether ETH has points or
\* not; the figure is saved and closed, whatever the backend.
exibir_grafico_graphics(historico, mpl) ==
    LET b == Tracar(Pontos(historico, BTC), BTC, "esquerdo")
        e == Tracar(Pontos(historico, ETH), ETH, "direito")
    IN  IF ~mpl THEN NadaDesenhado("", "matplotlib_indisponivel")
        ELSE IF SemPontos(historico) THEN NadaDesenhado("", "nenhum_dado")
        ELSE IF b.exc # "" THEN NadaDesenhado(b.exc, "")
        ELSE IF e.exc # "" THEN NadaDesenhado(e.exc, "")
        ELSE ResultadoGrafico("", "grafico_salvo", b.v \o e.v,
                              {"esquerdo", "direito"}, FALSE, TRUE, FALSE)

\* ------------------------------------------------- buscar_precos

\* A JSON value is a record [t, n, m]: t its type ("num", "big" an integer
\* beyond the range of a float, "str", "null", "obj"), n the number in
\* thousandths, m the members of an object.
JNum(n) == [t |-> "num", n |-> n, m |-> <<>>]
JLeaf(t) == [t |-> t, n |-> 0, m |-> <<>>]
JObj(m) == [t |-> "obj", n |-> 0, m |-> m]

\* v[k]: e is the exception raised, "" when there is none.
GetItem(v, k) ==
    IF v.t # "obj" THEN [e |-> "TypeError", v |-> v]
    ELSE IF k \notin DOMAIN v.m THEN [e |-> "KeyError", v |-> v]
    ELSE [e |-> "", v |-> v.m[k]]

\* float(v)
ToFloat(v) ==
    CASE v.t = "num" -> [e |-> "", v |-> v.n]
      [] v.t = "str" -> [e |-> "ValueError", v |-> 0]
      [] v.t = "big" -> [e |-> "OverflowError", v |-> 0]
      [] OTHER -> [e |-> "TypeError", v |-> 0]

\* float(data[moeda]["usd"])
PrecoDe(data, moeda) ==
    LET a == GetItem(data, moeda)
        b == IF a.e = "" THEN GetItem(a.v, "usd") ELSE a
    IN  IF b.e = "" THEN ToFloat(b.v) ELSE [e |-> b.e, v |-> 0]

\* The exceptions the second try block turns into SystemExit.
Capturadas == {"KeyError", "TypeError", "ValueError"}

\* buscar_precos() on what the network answers.  resp.rede is "ok",
\* "URLError" (urlopen fails: unreachable, refused, connect timeout) or
\* "TimeoutError" (the read of the body times out: urllib does not wrap it);
\* resp.json is whether the body is JSON text, resp.data its value.
\* e is "" on return (precos is the dict, in insertion order) or the
\* exception that leaves the function.
buscar_precos(resp) ==
    LET b == PrecoDe(resp.data, "bitcoin")
        t == PrecoDe(resp.data, "ethereum")
        e2 == IF b.e # "" THEN b.e ELSE t.e
    IN  IF resp.rede = "URLError" THEN [e |-> "SystemExit", precos |-> <<>>]
        ELSE IF resp.rede # "ok" THEN [e |-> resp.rede, precos |-> <<>>]
        ELSE IF ~resp.json THEN [e |-> "JSONDecodeError", precos |-> <<>>]
        ELSE IF e2 \in Capturadas THEN [e |-> "SystemExit", precos |-> <<>>]
        ELSE IF e2 # "" THEN [e |-> e2, precos |-> <<>>]
        ELSE [e |-> "", precos |-> <<[moeda |-> BTC, preco |-> b.v],
                                      [moeda |-> ETH, preco |-> t.v]>>]

\* What the API can answer: prices in thousandths of a dollar.
PrecosBTC == {50000567}
PrecosETH == {3000125}

Cotacao(b, t) == JObj([bitcoin |-> JObj([usd |-> b]), ethereum |-> JObj([usd |-> t])])

RespostasBoas ==
    {[rede |-> "ok", json |-> TRUE, data |-> Cotacao(JNum(b), JNum(t))] :
        b \in PrecosBTC, t \in PrecosETH}

RespostasRuins ==
    {[rede |-> r, json |-> FALSE, data |-> JLeaf("null")] : r \in {"URLError", "TimeoutError"}}
    \cup {[rede |-> "ok", json |-> FALSE, data |-> JLeaf("null")]}
    \cup {[rede |-> "ok", json |-> TRUE, data |-> d] :
            d \in {JObj([bitcoin |-> JObj([usd |-> JNum(50000567)])]),
                   JLeaf("str"),
                   Cotacao(JLeaf("null"), JNum(3000125)),
                   Cotacao(JNum(50000567), JLeaf("str")),
                   Cotacao(JNum(50000567), JLeaf("big"))}}

Respostas == RespostasBoas \cup RespostasRuins

\* ------------------------------------------------- bounds, constants

\* INTERVALO_ATUALIZACAO_SEGUNDOS
INTERVALO_ATUALIZACAO_SEGUNDOS == 15

\* The UTC offset astimezone() gives the local time, in hours.
FusoLocal == -3

\* The clock stops the model at this second.
MaxRelogio == 16

\* The seconds a fetch can take.
Latencias == {0, 1}

\* The seconds the fetches take between one sleep and the next, at most.
MaxAtraso == 1

\* No cycle writes its lines unless the file holds this many lines at most
\* after them.
MaxLinhas == 5

\* The times the user presses Ctrl-C.
MaxSinais == 1

\* Calls of the storage functions in the storage harness.
MaxChamadas == 2

\* Data lines of a file handed to the reader in the reader harness.
MaxLinhasLidas == 3

\* Data lines of a file whose records are handed to the views.
MaxRegistros == 3

\* Data lines of a file whose columns are permuted.
MaxLinhasPermutadas == 2

\* The largest of the small prices handed to formatar_preco, in thousandths.
MaxValor == 130

\* The times a write to the store fails.
MaxFalhas == 1

\* ------------------------------------------------- state

VARIABLES
    pc,         \* where the process is: "menu" (input() of exibir_menu),
                \* "mon_inicio" (top of the while loop, up to the return of
                \* buscar_precos), "mon_grava" (the for loop over precos),
                \* "sv_open", "sv_header", "sv_row", "sv_close" (inside
                \* salvar_cotacao: before open, before the header's writerow,
                \* before the data writerow, before the with block is left),
                \* "mon_dorme" (time.sleep), "fim" (the process has ended);
                \* "api" in the harnesses of the storage functions
    disco,      \* the store file: [existe, texto]
    buf,        \* what ponteiro has buffered and not yet written
    cab,        \* escrever_cabecalho
    horario,    \* horario of the current cycle
    precos,     \* precos of the current cycle: <<[moeda, preco], ...>>
    idx,        \* the position in precos of the for loop
    relogio,    \* the wall clock, in seconds
    tela,       \* the last thing printed
    exc,        \* the exception raised last: the one that ended the process,
                \* or the one iniciar_monitoramento has just caught; "" when
                \* none, or once main has gone on
    saida,      \* "running", or how the process ended
    pendente,   \* SIGINT has arrived and KeyboardInterrupt is not yet raised
    sinais,     \* the times SIGINT has arrived
    resultado,  \* what carregar_historico returned last
    lido,       \* harness: carregar_historico ran after the last write
    chamadas,   \* harness: the observations salvar_cotacao was called with
    linhas,     \* harness: the lines the file under the reader was built from
    falhas,     \* the times a write to the store has failed
    chamado,    \* the view that ran last and what it found around it:
                \* [visao, mpl, interativo, le]
    impresso,   \* what imprimir_historico did when it ran last
    grafico,    \* what exibir_grafico did when it ran last
    png,        \* grafico_cotacoes.png exists in the working directory
    formato,    \* the price formatar_preco was called with, in thousandths
                \* of a dollar, and the text it returned: [valor, texto]
    ciclos      \* the cycles of iniciar_monitoramento that have reached
                \* their sleep since the program was first started, counted
                \* for as long as no cycle has been cut short

vars == <<pc, disco, buf, cab, horario, precos, idx,
          relogio, tela, exc, saida, pendente, sinais, resultado, lido, chamadas, linhas,
          falhas, chamado, impresso, grafico, png, formato, ciclos>>

locals == <<buf, cab, horario, precos, idx>>

visoes == <<chamado, impresso, grafico>>

harness == <<sinais, lido, chamadas, linhas, falhas, formato>>

historia == <<sinais, lido, chamadas, linhas, falhas, formato, ciclos>>

\* No cycle has been cut short: no interrupt has arrived and no write has
\* failed.
SemCorte == sinais = 0 /\ falhas = 0

\* formatar_preco has not been called.
SemFormato == [valor |-> 0, texto |-> <<>>]

\* No view has run.
NenhumaVisao == [visao |-> "", mpl |-> FALSE, interativo |-> FALSE, le |-> FALSE]

NadaImpresso == [exc |-> "", linhas |-> <<>>, aviso |-> FALSE]

SemVisoes ==
    /\ chamado = NenhumaVisao
    /\ impresso = NadaImpresso
    /\ grafico = NadaDesenhado("", "")

\* Nothing has run yet.
Repouso ==
    /\ relogio = 0
    /\ buf = <<>>
    /\ cab = FALSE
    /\ horario = NoDate
    /\ precos = <<>>
    /\ idx = 1
    /\ tela = ""
    /\ exc = ""
    /\ saida = "running"
    /\ pendente = FALSE
    /\ sinais = 0
    /\ resultado = <<>>
    /\ lido = FALSE
    /\ chamadas = <<>>
    /\ falhas = 0
    /\ SemVisoes
    /\ png = FALSE
    /\ ciclos = 0

\* The program has just been started where no store file exists.
Init ==
    /\ pc = "menu"
    /\ disco = SemArquivo
    /\ linhas = <<>>
    /\ Repouso
    /\ formato = SemFormato

\* The lines the file holds.
NumLinhas(d) == Cardinality({i \in 1..Len(d.texto) : d.texto[i] = NL})

MonPcs == {"mon_inicio", "mon_grava", "sv_open", "sv_header", "sv_row",
           "sv_close", "mon_dorme"}

\* The pcs at which ponteiro is open.
AbertoPcs == {"sv_header", "sv_row", "sv_close"}

\* ------------------------------------------------- signals

\* What the views did is forgotten.
LimpaVisoes ==
    /\ chamado' = NenhumaVisao
    /\ impresso' = NadaImpresso
    /\ grafico' = NadaDesenhado("", "")

\* The user presses Ctrl-C: the interpreter raises KeyboardInterrupt before it
\* runs the next instruction of the main thread.
Sinal ==
    /\ pc # "fim"
    /\ ~pendente
    /\ sinais < MaxSinais
    /\ pendente' = TRUE
    /\ sinais' = sinais + 1
    /\ ciclos' = 0
    /\ UNCHANGED <<visoes, png>>
    /\ UNCHANGED <<pc, disco, locals, relogio, tela, exc, saida, resultado,
                   lido, chamadas, linhas, falhas, formato>>

\* A handler that catches every exception, and one that catches none.
CapturaTudo(e) == TRUE

CapturaNada(e) == FALSE

\* except KeyboardInterrupt: of iniciar_monitoramento
CapturaEmMonitor(e) == e = "KeyboardInterrupt"

\* An exception e leaves the loop of iniciar_monitoramento.  Caught, the
\* farewell is printed and main prompts again; otherwise it leaves main too
\* and ends the process.
Propaga(e) ==
    IF CapturaEmMonitor(e)
    THEN /\ pc' = "menu"
         /\ exc' = e
         /\ tela' = "farewell"
         /\ UNCHANGED saida
    ELSE /\ pc' = "fim"
         /\ exc' = e
         /\ saida' = IF e = "KeyboardInterrupt" THEN "sigint" ELSE "exit1"
         /\ tela' = IF e = "SystemExit" THEN "mensagem_de_erro" ELSE "traceback"

\* KeyboardInterrupt is raised inside iniciar_monitoramento.  A with block
\* that is open is left first: ponteiro is closed and its buffer written.
InterromperMonitor ==
    /\ pendente
    /\ pc \in MonPcs
    /\ pendente' = FALSE
    /\ disco' = IF pc \in AbertoPcs THEN Fechar(disco, buf) ELSE disco
    /\ buf' = <<>>
    /\ Propaga("KeyboardInterrupt")
    /\ cab' = FALSE
    /\ horario' = NoDate
    /\ precos' = <<>>
    /\ idx' = 1
    /\ UNCHANGED <<visoes, png>>
    /\ UNCHANGED <<relogio, resultado, historia>>

\* KeyboardInterrupt is raised inside input(): nothing in main catches it.
InterromperMenu ==
    /\ pendente
    /\ pc = "menu"
    /\ pendente' = FALSE
    /\ pc' = "fim"
    /\ exc' = "KeyboardInterrupt"
    /\ saida' = "sigint"
    /\ tela' = "traceback"
    /\ resultado' = <<>>
    /\ LimpaVisoes
    /\ UNCHANGED <<png, disco, locals, relogio, historia>>

\* ------------------------------------------------- main

\* What exibir_grafico finds around it, as far as it looks: whether
\* matplotlib can be imported; if it can, whether the backend is an
\* interactive one; if it is not, whether imread reads the saved file.
Ambientes ==
    {[mpl |-> FALSE, interativo |-> FALSE, le |-> FALSE],
     [mpl |-> TRUE, interativo |-> TRUE, le |-> FALSE],
     [mpl |-> TRUE, interativo |-> FALSE, le |-> TRUE],
     [mpl |-> TRUE, interativo |-> FALSE, le |-> FALSE]}

\* escolha == "1": iniciar_monitoramento()
Menu1 ==
    /\ pc = "menu"
    /\ ~pendente
    /\ pc' = "mon_inicio"
    /\ tela' = "menu"
    /\ resultado' = <<>>
    /\ exc' = ""
    /\ LimpaVisoes
    /\ UNCHANGED png
    /\ UNCHANGED <<disco, locals, relogio, saida, pendente, historia>>

\* An exception e leaves a view and, nothing in main catching it, the process.
SaiDaVisao(e) ==
    IF e = ""
    THEN /\ exc' = ""
         /\ UNCHANGED <<pc, saida>>
    ELSE /\ exc' = e
         /\ pc' = "fim"
         /\ saida' = "exit1"

\* escolha == "2": imprimir_historico(carregar_historico())
Menu2 ==
    /\ pc = "menu"
    /\ ~pendente
    /\ resultado' = carregar_historico(disco)
    /\ impresso' = imprimir_historico(resultado')
    /\ tela' = IF impresso'.exc # "" THEN "traceback"
               ELSE IF impresso'.aviso THEN "nenhum_registro" ELSE "historico"
    /\ SaiDaVisao(impresso'.exc)
    /\ chamado' = [NenhumaVisao EXCEPT !.visao = "imprimir_historico"]
    /\ grafico' = NadaDesenhado("", "")
    /\ disco' = DiscoAposLeitura(disco)
    /\ UNCHANGED <<png, locals, relogio, pendente, historia>>

\* escolha == "3": exibir_grafico(carregar_historico())
Menu3 ==
    /\ pc = "menu"
    /\ ~pendente
    /\ resultado' = carregar_historico(disco)
    /\ \E a \in Ambientes :
         /\ grafico' = exibir_grafico(resultado', a.mpl, a.interativo, a.le)
         /\ chamado' = [visao |-> "exibir_grafico", mpl |-> a.mpl,
                        interativo |-> a.interativo, le |-> a.le]
    /\ png' = (png \/ grafico'.salvo)
    /\ tela' = IF grafico'.exc # "" THEN "traceback"
               ELSE IF grafico'.msg # "" THEN grafico'.msg ELSE "grafico"
    /\ SaiDaVisao(grafico'.exc)
    /\ impresso' = NadaImpresso
    /\ disco' = DiscoAposLeitura(disco)
    /\ UNCHANGED <<locals, relogio, pendente, historia>>

\* escolha == "0": sys.exit(0)
Menu0 ==
    /\ pc = "menu"
    /\ ~pendente
    /\ pc' = "fim"
    /\ tela' = "ate_a_proxima"
    /\ saida' = "exit0"
    /\ resultado' = <<>>
    /\ exc' = ""
    /\ LimpaVisoes
    /\ UNCHANGED png
    /\ UNCHANGED <<disco, locals, relogio, pendente, historia>>

\* any other input
MenuInvalida ==
    /\ pc = "menu"
    /\ ~pendente
    /\ tela' = "opcao_invalida"
    /\ resultado' = <<>>
    /\ exc' = ""
    /\ LimpaVisoes
    /\ UNCHANGED png
    /\ UNCHANGED <<pc, disco, locals, relogio, saida, pendente, historia>>

\* The program is started again: the file and the clock are what the earlier
\* process left.
Reiniciar ==
    /\ pc = "fim"
    /\ pc' = "menu"
    /\ buf' = <<>>
    /\ cab' = FALSE
    /\ horario' = NoDate
    /\ precos' = <<>>
    /\ idx' = 1
    /\ tela' = ""
    /\ exc' = ""
    /\ saida' = "running"
    /\ pendente' = FALSE
    /\ resultado' = <<>>
    /\ LimpaVisoes
    /\ UNCHANGED <<png, disco, relogio, historia>>

\* ------------------------------------------------- iniciar_monitoramento

\* A clock read backwards.
AgoraAoContrario == [s |-> MaxRelogio + 1 - relogio, aware |-> TRUE, off |-> FusoLocal]

\* datetime.now(timezone.utc).astimezone()
Agora == [s |-> relogio, aware |-> TRUE, off |-> FusoLocal]

\* The top of the loop, up to the return of buscar_precos: limpar_terminal(),
\* horario, the fetch (which takes d seconds) and, when it returns, the lines
\* printed before the for loop.
Buscar ==
    /\ pc = "mon_inicio"
    /\ ~pendente
    /\ \E resp \in Respostas, d \in Latencias :
         LET r == buscar_precos(resp)
         IN  /\ relogio + d <= MaxRelogio
             /\ (relogio % INTERVALO_ATUALIZACAO_SEGUNDOS) + d <= MaxAtraso
             /\ relogio' = relogio + d
             /\ IF r.e = ""
                THEN /\ NumLinhas(disco) + Len(r.precos) <= MaxLinhas
                     /\ horario' = Agora
                     /\ precos' = r.precos
                     /\ idx' = 1
                     /\ pc' = "mon_grava"
                     /\ tela' = "atualizado_em"
                     /\ UNCHANGED <<exc, saida>>
                ELSE /\ Propaga(r.e)
                     /\ horario' = NoDate
                     /\ precos' = <<>>
                     /\ idx' = 1
    /\ UNCHANGED <<visoes, png>>
    /\ UNCHANGED <<disco, buf, cab, pendente, resultado, historia>>

\* for moeda, preco in precos.items(): the next pair is printed and
\* salvar_cotacao is entered, up to escrever_cabecalho.
Gravar ==
    /\ pc = "mon_grava"
    /\ ~pendente
    /\ idx <= Len(precos)
    /\ cab' = EscreverCabecalho(disco)
    /\ tela' = "preco"
    /\ pc' = "sv_open"
    /\ UNCHANGED <<visoes, png>>
    /\ UNCHANGED <<disco, buf, horario, precos, idx,
                   relogio, exc, saida, pendente, resultado, historia>>

\* open(arquivo, "a", ...)
SvAbrir ==
    /\ pc = "sv_open"
    /\ ~pendente
    /\ disco' = AbrirAppend(disco)
    /\ buf' = <<>>
    /\ pc' = IF cab THEN "sv_header" ELSE "sv_row"
    /\ UNCHANGED <<visoes, png>>
    /\ UNCHANGED <<cab, horario, precos, idx, relogio,
                   tela, exc, saida, pendente, resultado, historia>>

\* open(arquivo, "a", ...) raises OSError (the path cannot be written): no
\* file is made or changed, and the exception leaves salvar_cotacao.
SvFalhaAbrir ==
    /\ pc = "sv_open"
    /\ ~pendente
    /\ falhas < MaxFalhas
    /\ falhas' = falhas + 1
    /\ Propaga("OSError")
    /\ buf' = <<>>
    /\ cab' = FALSE
    /\ horario' = NoDate
    /\ precos' = <<>>
    /\ idx' = 1
    /\ ciclos' = 0
    /\ UNCHANGED <<visoes, png>>
    /\ UNCHANGED <<disco, relogio, pendente, resultado, sinais, lido, chamadas, linhas,
                   formato>>

\* Leaving the with block raises OSError (the device is full): what was
\* buffered is not written, and the exception leaves salvar_cotacao.
SvFalhaFechar ==
    /\ pc = "sv_close"
    /\ ~pendente
    /\ falhas < MaxFalhas
    /\ falhas' = falhas + 1
    /\ Propaga("OSError")
    /\ buf' = <<>>
    /\ cab' = FALSE
    /\ horario' = NoDate
    /\ precos' = <<>>
    /\ idx' = 1
    /\ ciclos' = 0
    /\ UNCHANGED <<visoes, png>>
    /\ UNCHANGED <<disco, relogio, pendente, resultado, sinais, lido, chamadas, linhas,
                   formato>>

\* escritor.writerow(["data_hora", "moeda", "preco"])
SvCabecalho ==
    /\ pc = "sv_header"
    /\ ~pendente
    /\ buf' = buf \o LinhaCabecalho
    /\ pc' = "sv_row"
    /\ UNCHANGED <<visoes, png>>
    /\ UNCHANGED <<disco, cab, horario, precos, idx,
                   relogio, tela, exc, saida, pendente, resultado, historia>>

\* escritor.writerow([horario.isoformat(), moeda, f"{preco:.2f}"])
SvLinha ==
    /\ pc = "sv_row"
    /\ ~pendente
    /\ buf' = buf \o LinhaDados(horario, precos[idx].moeda, precos[idx].preco)
    /\ pc' = "sv_close"
    /\ UNCHANGED <<visoes, png>>
    /\ UNCHANGED <<disco, cab, horario, precos, idx,
                   relogio, tela, exc, saida, pendente, resultado, historia>>

\* The with block is left and salvar_cotacao returns to the for loop.
SvFechar ==
    /\ pc = "sv_close"
    /\ ~pendente
    /\ disco' = Fechar(disco, buf)
    /\ buf' = <<>>
    /\ idx' = idx + 1
    /\ pc' = "mon_grava"
    /\ UNCHANGED <<visoes, png>>
    /\ UNCHANGED <<cab, horario, precos, relogio, tela, exc, saida,
                   pendente, resultado, historia>>

\* The for loop is over: the notice is printed and time.sleep is entered.
FimCiclo ==
    /\ pc = "mon_grava"
    /\ ~pendente
    /\ idx > Len(precos)
    /\ tela' = "salvo_no_historico"
    /\ pc' = "mon_dorme"
    /\ ciclos' = IF SemCorte THEN ciclos + 1 ELSE 0
    /\ UNCHANGED <<visoes, png>>
    /\ UNCHANGED <<disco, locals, relogio, exc, saida, pendente,
                   resultado, harness>>

\* time.sleep(intervalo_segundos) returns.
Dormir ==
    /\ pc = "mon_dorme"
    /\ ~pendente
    /\ relogio + INTERVALO_ATUALIZACAO_SEGUNDOS <= MaxRelogio
    /\ relogio' = relogio + INTERVALO_ATUALIZACAO_SEGUNDOS
    /\ pc' = "mon_inicio"
    /\ UNCHANGED <<visoes, png>>
    /\ UNCHANGED <<disco, locals, tela, exc, saida, pendente,
                   resultado, historia>>

Next ==
    \/ Sinal \/ InterromperMonitor \/ InterromperMenu
    \/ Menu1 \/ Menu2 \/ Menu3 \/ Menu0 \/ MenuInvalida \/ Reiniciar
    \/ Buscar \/ Gravar \/ SvAbrir \/ SvCabecalho \/ SvLinha \/ SvFechar
    \/ SvFalhaAbrir \/ SvFalhaFechar
    \/ FimCiclo \/ Dormir

Spec == Init /\ [][Next]_vars

\* The steps the interpreter takes by itself while iniciar_monitoramento
\* runs: every call of the loop returns (the request has a timeout, the
\* sleep an interval) and a KeyboardInterrupt that is pending is raised.
Monitorar ==
    \/ Buscar \/ Gravar \/ SvAbrir \/ SvCabecalho \/ SvLinha \/ SvFechar
    \/ FimCiclo \/ Dormir \/ InterromperMonitor

\* The steps of the program when the user asks for no view at the prompt:
\* the views read the file and leave the loop as it is.
NextVivo ==
    \/ Sinal \/ InterromperMonitor \/ InterromperMenu
    \/ Menu1 \/ Menu0 \/ MenuInvalida \/ Reiniciar
    \/ Buscar \/ Gravar \/ SvAbrir \/ SvCabecalho \/ SvLinha \/ SvFechar
    \/ SvFalhaAbrir \/ SvFalhaFechar
    \/ FimCiclo \/ Dormir

\* The program with a running loop that is never left standing: the user
\* may stay at the prompt for ever, and the signal and the failures of the
\* store may or may not come.
SpecVivo == Init /\ [][NextVivo]_vars /\ WF_vars(Monitorar)

\* ------------------------------------------------- the storage functions
\* called directly, as the tests of storage.py call them

Obs(h, m, p) == [horario |-> h, moeda |-> m, preco |-> p]

\* The observations salvar_cotacao is called with: a naive and an aware
\* datetime; BTC, ETH and a symbol the csv writer has to quote; prices that
\* round down, round up with a carry, and lie on an exact tie (0.125).
Horarios == {[s |-> 0, aware |-> FALSE, off |-> 0], [s |-> 59, aware |-> TRUE, off |-> -3]}
Moedas == {BTC, ETH, <<"X", COMMA, Q, NL>>}
Precos == {0, 125, 1996, 50000567}

InitArmazenamento ==
    /\ pc = "api"
    /\ disco = SemArquivo
    /\ linhas = <<>>
    /\ Repouso
    /\ formato = SemFormato

\* salvar_cotacao(h, m, p, arquivo)
ApiSalvar ==
    /\ pc = "api"
    /\ Len(chamadas) < MaxChamadas
    /\ \E h \in Horarios, m \in Moedas, p \in Precos :
         /\ disco' = salvar_cotacao(disco, h, m, p)
         /\ chamadas' = Append(chamadas, Obs(h, m, p))
    /\ lido' = FALSE
    /\ resultado' = <<>>
    /\ UNCHANGED <<visoes, png>>
    /\ UNCHANGED <<pc, locals, relogio, tela, exc, saida, pendente, sinais, linhas,
                   falhas, formato, ciclos>>

\* carregar_historico(arquivo)
ApiCarregar ==
    /\ pc = "api"
    /\ ~lido
    /\ resultado' = carregar_historico(disco)
    /\ exc' = ErroDeCarregar(disco)
    /\ lido' = TRUE
    /\ disco' = DiscoAposLeitura(disco)
    /\ UNCHANGED <<visoes, png>>
    /\ UNCHANGED <<pc, locals, relogio, tela, saida, pendente,
                   sinais, chamadas, linhas, falhas, formato, ciclos>>

NextArmazenamento == ApiSalvar \/ ApiCarregar

SpecArmazenamento == InitArmazenamento /\ [][NextArmazenamento]_vars

\* ------------------------------------------------- the reader on a file it
\* did not write

V1 == Obs([s |-> 0, aware |-> FALSE, off |-> 0], BTC, 50000000)
V2 == Obs([s |-> 15, aware |-> TRUE, off |-> -3], BTC, 50100000)

\* A line whose three fields convert, the price to a number below zero.
V3 == Obs([s |-> 30, aware |-> FALSE, off |-> 0], ETH, -5000)

LinhaValida(o) == [valida |-> TRUE, obs |-> o,
                   texto |-> writerow(<<isoformat(o.horario), o.moeda, Fmt2(o.preco)>>)]

LinhaRuim(t) == [valida |-> FALSE, obs |-> V1, texto |-> t]

\* The lines a file is built from: three whose fields convert, and
\* malformed ones: a timestamp that is no timestamp, a price that is no
\* number, a missing field, and a timestamp that is no timestamp and starts
\* with a quote.
TiposDeLinha ==
    {LinhaValida(V1), LinhaValida(V2), LinhaValida(V3),
     LinhaRuim(writerow(<<<<"x">>, ETH, Fmt2(1000)>>)),
     LinhaRuim(writerow(<<isoformat(V1.horario), ETH, <<"a">>>>)),
     LinhaRuim(writerow(<<isoformat(V1.horario), ETH>>)),
     LinhaRuim(<<Q, "x", COMMA>> \o ETH \o <<COMMA>> \o Fmt2(1000) \o <<NL>>)}

RECURSIVE TextoDe(_)
TextoDe(ls) == IF ls = <<>> THEN <<>> ELSE ls[1].texto \o TextoDe(Tail(ls))

ArquivoDe(ls) == [existe |-> TRUE, texto |-> LinhaCabecalho \o TextoDe(ls)]

ArquivosLidos ==
    UNION {[1..n -> TiposDeLinha] : n \in 0..MaxLinhasLidas}

\* A file that exists and holds nothing.
ArquivoVazio == [existe |-> TRUE, texto |-> <<>>]

\* The path holds a file built from lines under the header, or an empty
\* file, or nothing.
InitLeitor ==
    /\ pc = "api"
    /\ \/ linhas \in ArquivosLidos /\ disco = ArquivoDe(linhas)
       \/ linhas = <<>> /\ disco \in {SemArquivo, ArquivoVazio}
    /\ Repouso
    /\ formato = SemFormato

NextLeitor == ApiCarregar

SpecLeitor == InitLeitor /\ [][NextLeitor]_vars

\* ------------------------------------------------- the views on the records
\* of a file

XRP == <<"X", "R", "P">>

\* An ETH observation of the instant of V1, and one of a third symbol.
V4 == Obs([s |-> 0, aware |-> FALSE, off |-> 0], ETH, 3000000)
V5 == Obs([s |-> 15, aware |-> FALSE, off |-> 0], XRP, 250)

\* The lines the file is built from, in any order: timestamps with and
\* without an offset, two of the same instant, BTC, ETH and a third symbol.
RegistrosDeVisao ==
    {LinhaValida(V1), LinhaValida(V2), LinhaValida(V3), LinhaValida(V4),
     LinhaValida(V5)}

ArquivosDeVisao ==
    UNION {[1..n -> RegistrosDeVisao] : n \in 0..MaxRegistros}

InitVisoes ==
    /\ pc = "api"
    /\ linhas \in ArquivosDeVisao
    /\ disco = ArquivoDe(linhas)
    /\ Repouso
    /\ formato = SemFormato

\* imprimir_historico(historico) on what carregar_historico returned
ApiImprimir ==
    /\ pc = "api"
    /\ lido
    /\ impresso' = imprimir_historico(resultado)
    /\ exc' = impresso'.exc
    /\ chamado' = [NenhumaVisao EXCEPT !.visao = "imprimir_historico"]
    /\ grafico' = NadaDesenhado("", "")
    /\ UNCHANGED <<pc, disco, locals, relogio, tela, saida, pendente, resultado,
                   historia, png>>

\* exibir_grafico(historico) of monitor_cripto.py on what carregar_historico
\* returned
ApiGrafico ==
    /\ pc = "api"
    /\ lido
    /\ \E mpl \in BOOLEAN, interativo \in BOOLEAN, le \in BOOLEAN :
         /\ grafico' = exibir_grafico(resultado, mpl, interativo, le)
         /\ chamado' = [visao |-> "exibir_grafico", mpl |-> mpl,
                        interativo |-> interativo, le |-> le]
    /\ exc' = grafico'.exc
    /\ png' = (png \/ grafico'.salvo)
    /\ impresso' = NadaImpresso
    /\ UNCHANGED <<pc, disco, locals, relogio, tela, saida, pendente, resultado,
                   historia>>

\* exibir_grafico(historico) of graphics.py on what carregar_historico
\* returned; the backend is not looked at
ApiGraficoGraphics ==
    /\ pc = "api"
    /\ lido
    /\ \E mpl \in BOOLEAN, interativo \in BOOLEAN :
         /\ grafico' = exibir_grafico_graphics(resultado, mpl)
         /\ chamado' = [visao |-> "graphics.exibir_grafico", mpl |-> mpl,
                        interativo |-> interativo, le |-> FALSE]
    /\ exc' = grafico'.exc
    /\ png' = (png \/ grafico'.salvo)
    /\ impresso' = NadaImpresso
    /\ UNCHANGED <<pc, disco, locals, relogio, tela, saida, pendente, resultado,
                   historia>>

NextVisoes == ApiCarregar \/ ApiImprimir \/ ApiGrafico \/ ApiGraficoGraphics

SpecVisoes == InitVisoes /\ [][NextVisoes]_vars

\* ------------------------------------------------- the reader on a file
\* whose columns are in another order

\* The fields of a line, in the order data_hora, moeda, preco: those of V1,
\* V2 and V3, a symbol the writer quotes, a timestamp that is no timestamp
\* and a price that is no number.
CamposPermutaveis ==
    {<<isoformat(V1.horario), V1.moeda, Fmt2(V1.preco)>>,
     <<isoformat(V2.horario), V2.moeda, Fmt2(V2.preco)>>,
     <<isoformat(V3.horario), V3.moeda, Fmt2(V3.preco)>>,
     <<isoformat(V1.horario), <<"X", COMMA, Q, NL>>, Fmt2(1996)>>,
     <<<<"x">>, ETH, Fmt2(1000)>>,
     <<isoformat(V1.horario), ETH, <<"a">>>>}

\* The orders of three columns.
OrdensDeColunas ==
    {p \in [1..3 -> 1..3] : \A i, j \in 1..3 : i # j => p[i] # p[j]}

\* The fields f in the column order p.
Permutar(p, f) == [i \in 1..3 |-> f[p[i]]]

RECURSIVE TextoPermutado(_, _)
TextoPermutado(p, ls) ==
    IF ls = <<>> THEN <<>>
    ELSE writerow(Permutar(p, ls[1])) \o TextoPermutado(p, Tail(ls))

\* The file of the lines ls written with its columns in the order p, the
\* header first.
ArquivoPermutado(p, ls) ==
    [existe |-> TRUE,
     texto |-> writerow(Permutar(p, Cabecalho)) \o TextoPermutado(p, ls)]

Identidade == [i \in 1..3 |-> i]

LinhasPermutaveis ==
    UNION {[1..n -> CamposPermutaveis] : n \in 0..MaxLinhasPermutadas}

InitColunas ==
    /\ pc = "api"
    /\ linhas \in LinhasPermutaveis
    /\ \E p \in OrdensDeColunas : disco = ArquivoPermutado(p, linhas)
    /\ Repouso
    /\ formato = SemFormato

NextColunas == ApiCarregar

SpecColunas == InitColunas /\ [][NextColunas]_vars

\* ------------------------------------------------- formatar_preco called
\* directly, as the tests of config.py call it

\* The prices formatar_preco is called with, in thousandths of a dollar:
\* every small one, and larger ones that reach one and two separators, carry
\* into a new digit and into a new group.  A value whose third decimal is 5
\* is kept only where the double holds it exactly (see RoundCents).
ValoresFormatados ==
    {m \in (0..MaxValor) \cup {500, 999994, 999996, 1000996, 1234500, 1234560,
                               45234123, 45234567, 99999999, 999999996,
                               1234567890} :
        m % 10 # 5 \/ m % 250 = 125}

InitFormato ==
    /\ pc = "api"
    /\ disco = SemArquivo
    /\ linhas = <<>>
    /\ Repouso
    /\ formato \in {[valor |-> m, texto |-> <<>>] : m \in ValoresFormatados}

\* formatar_preco(valor)
ApiFormatar ==
    /\ pc = "api"
    /\ formato.texto = <<>>
    /\ formato' = [formato EXCEPT !.texto = formatar_preco(formato.valor)]
    /\ UNCHANGED <<pc, disco, locals, relogio, tela, exc, saida, pendente,
                   sinais, resultado, lido, chamadas, linhas, falhas, visoes, png,
                   ciclos>>

NextFormato == ApiFormatar

SpecFormato == InitFormato /\ [][NextFormato]_vars

\* ================================================= properties

\* The fields salvar_cotacao writes for an observation.
CamposDe(o) == <<isoformat(o.horario), o.moeda, Fmt2(o.preco)>>

\* C1: on a path that did not exist, after N >= 1 calls of salvar_cotacao the
\* file holds the header as its first record, then one record per call, in
\* call order, and the header nowhere else.
C1_UmCabecalhoENLinhas ==
    chamadas # <<>> =>
        LET rows == CsvRows(disco.texto)
        IN  /\ disco.existe
            /\ Len(rows) = Len(chamadas) + 1
            /\ rows[1] = Cabecalho
            /\ \A i \in 1..Len(chamadas) :
                 /\ rows[i + 1] = CamposDe(chamadas[i])
                 /\ rows[i + 1] # Cabecalho

C1_Witness == Len(chamadas) >= 2 /\ Len(CsvRows(disco.texto)) = Len(chamadas) + 1

\* C2: carregar_historico after salvar_cotacao returns every observation that
\* was saved, with its timestamp and symbol as given and its price at the
\* nearest cent (two decimals).
C2_IdaEVolta ==
    lido =>
        \A i \in 1..Len(chamadas) :
            \E j \in 1..Len(resultado) :
                /\ resultado[j].horario = chamadas[i].horario
                /\ resultado[j].moeda = chamadas[i].moeda
                /\ resultado[j].preco % 10 = 0
                /\ Abs(resultado[j].preco - chamadas[i].preco) <= 5

C2_Witness ==
    /\ lido
    /\ \E i \in 1..Len(chamadas) :
         /\ chamadas[i].preco = 50000567
         /\ Len(resultado) >= i
         /\ resultado[i].preco = 50000570
         /\ resultado[i].moeda = chamadas[i].moeda

\* The observations of the valid lines, in the order of the lines.
RECURSIVE Esperado(_)
Esperado(ls) ==
    IF ls = <<>> THEN <<>>
    ELSE (IF ls[1].valida THEN <<ls[1].obs>> ELSE <<>>) \o Esperado(Tail(ls))

\* C3: from a file of valid and malformed lines carregar_historico returns
\* exactly the observations of the valid lines, in file order.
C3_LeitorTolerante == lido => resultado = Esperado(linhas)

\* C4: no step changes what the store file already holds: the text before the
\* step is a prefix of the text after it, and the file is never removed.
C4_SoAcrescenta ==
    [][/\ disco.existe => disco'.existe
       /\ IsPrefix(disco.texto, disco'.texto)]_vars

C4_Witness == pc = "menu" /\ sinais >= 1 /\ exc = "" /\ NumLinhas(disco) >= 4

\* C5: an interrupt that arrives while iniciar_monitoramento runs is caught:
\* the farewell is printed, the process goes on and main is at its prompt.
C5_InterrupcaoVoltaAoMenu ==
    [][(pendente /\ pc \in MonPcs) =>
          /\ pc' = "menu"
          /\ tela' = "farewell"
          /\ saida' = "running"
          /\ ~pendente']_vars

C5_Witness == pc = "menu" /\ tela = "farewell" /\ saida = "running" /\ sinais >= 1

\* The records of the file other than the header.
LinhasDeDados(d) == SelectSeq(CsvRows(d.texto), LAMBDA r : r # Cabecalho)

\* Every cycle that wrote a line wrote the BTC line and the ETH line.
CiclosInteiros(d) ==
    LET ls == LinhasDeDados(d)
    IN  /\ Len(ls) % 2 = 0
        /\ \A k \in 1..(Len(ls) \div 2) :
             /\ ls[2 * k - 1][2] = BTC
             /\ ls[2 * k][2] = ETH
             /\ ls[2 * k - 1][1] = ls[2 * k][1]

\* C6: when iniciar_monitoramento has returned after an interrupt, every
\* cycle that appended a line has appended one line for every symbol.
C6_CancelaEntreCiclos == (pc = "menu" /\ tela = "farewell") => CiclosInteiros(disco)

\* The header first, then records of three fields, all of which the reader
\* returns.
Consistente(d) ==
    LET rows == CsvRows(d.texto)
    IN  ~d.existe \/
        /\ rows # <<>>
        /\ rows[1] = Cabecalho
        /\ \A i \in 2..Len(rows) : Len(rows[i]) = 3
        /\ Len(carregar_historico(d)) = Len(rows) - 1

\* C7: after an interrupt during monitoring the store file does not exist,
\* or starts with the header and holds complete lines only.
C7_ArquivoConsistente == (pc = "menu" /\ tela = "farewell") => Consistente(disco)

Falha(e) == e \notin {"", "KeyboardInterrupt"}

\* The exceptions that leave buscar_precos.
FalhaBusca(e) == e \in {"SystemExit", "TimeoutError", "JSONDecodeError", "OverflowError"}

\* C8: the step in which buscar_precos fails appends nothing and ends the
\* loop, and nothing is fetched, appended or slept after it.
C8_FalhaFatal ==
    [][/\ (~FalhaBusca(exc) /\ FalhaBusca(exc')) =>
            (pc = "mon_inicio" /\ pc' = "fim" /\ disco' = disco)
       /\ FalhaBusca(exc) =>
            (pc' \notin MonPcs /\ disco' = disco /\ relogio' = relogio)]_vars

C8_Witness == pc = "fim" /\ exc = "SystemExit" /\ NumLinhas(disco) >= 3

\* C9, as claimed: after buscar_precos fails inside iniciar_monitoramento the
\* program is at the menu prompt and the process keeps running.
C9_VoltaAoMenu ==
    [][(pc = "mon_inicio" /\ Falha(exc')) => (pc' = "menu" /\ saida' = "running")]_vars

\* C9, amended: a failure of buscar_precos inside iniciar_monitoramento ends
\* the process with a failure status; the menu does not prompt again.
C9_EncerraOProcesso ==
    Falha(exc) => (pc = "fim" /\ saida = "exit1" /\ ~pendente)

C9_Witness == exc = "SystemExit" /\ saida = "exit1" /\ tela = "mensagem_de_erro"

\* C10: buscar_precos returns a mapping whose keys are exactly BTC and ETH,
\* or raises SystemExit and no other exception.
C10_DoisResultados ==
    /\ pc = "mon_grava" => {precos[i].moeda : i \in 1..Len(precos)} = {BTC, ETH}
    /\ FalhaBusca(exc) => exc = "SystemExit"

\* C11: every observation carregar_historico returns has a price that is
\* not below zero.
C11_PrecoNaoNegativo ==
    lido => \A i \in 1..Len(resultado) : resultado[i].preco >= 0

\* C13: an OSError raised while salvar_cotacao writes is raised once, is not
\* caught by iniciar_monitoramento and ends the process; nothing is fetched,
\* appended or slept after it.
C13_FalhaDeEscritaPropaga ==
    [][/\ (exc # "OSError" /\ exc' = "OSError") =>
            /\ pc \in {"sv_open", "sv_close"}
            /\ pc' = "fim"
            /\ saida' = "exit1"
            /\ tela' = "traceback"
            /\ disco' = disco
       /\ exc = "OSError" =>
            (pc' \notin MonPcs /\ disco' = disco /\ relogio' = relogio)]_vars

C13_Witness == pc = "fim" /\ exc = "OSError" /\ NumLinhas(disco) >= 2

\* The store holds no data row: no file, an empty file, or the header only.
SemDados(d) == ~d.existe \/ d.texto = <<>> \/ d.texto = LinhaCabecalho

\* C14: on a store that holds no data row carregar_historico returns the
\* empty list and raises nothing.
C14_VazioSemErro ==
    (lido /\ SemDados(disco)) => (resultado = <<>> /\ exc = "")

C14_Witness == lido /\ ~disco.existe /\ resultado = <<>> /\ exc = ""

\* The one-to-one maps of 1..n onto itself.
Permutacoes(n) == {f \in [1..n -> 1..n] : \A i, j \in 1..n : i # j => f[i] # f[j]}

\* o holds the elements of r, each once, by ascending instant, those of one
\* instant in the order they have in r.
OrdenacaoEstavel(r, o) ==
    /\ Len(o) = Len(r)
    /\ \E f \in Permutacoes(Len(r)) :
         /\ \A i \in 1..Len(r) : o[i] = r[f[i]]
         /\ \A i, j \in 1..Len(r) :
              i < j => \/ Instante(o[i].horario) < Instante(o[j].horario)
                       \/ /\ Instante(o[i].horario) = Instante(o[j].horario)
                          /\ f[i] < f[j]

\* C15: for every record set carregar_historico returns, those that hold
\* timestamps with and without an offset included, imprimir_historico raises
\* nothing and prints one line an observation, by ascending timestamp with
\* ties in their original order, and the notice of no record exactly when
\* the set is empty.
C15_UmaLinhaPorRegistroEmOrdem ==
    (pc = "api" /\ chamado.visao = "imprimir_historico") =>
        /\ impresso.exc = ""
        /\ OrdenacaoEstavel(resultado, impresso.linhas)
        /\ impresso.aviso <=> (resultado = <<>>)

\* The same of the record sets whose timestamps can be compared.
C15_EmOrdemSeComparaveis ==
    (pc = "api" /\ chamado.visao = "imprimir_historico" /\ Comparaveis(resultado)) =>
        /\ impresso.exc = ""
        /\ OrdenacaoEstavel(resultado, impresso.linhas)
        /\ impresso.aviso <=> (resultado = <<>>)

\* The symbols of a record set, and those the chart has a line for.
Simbolos(hist) == {hist[i].moeda : i \in 1..Len(hist)}

SimbolosTracados(g) == {g.series[i].moeda : i \in 1..Len(g.series)}

\* A chart was asked of either exibir_grafico, with matplotlib there.
GraficoPedido ==
    /\ pc = "api"
    /\ chamado.visao \in {"exibir_grafico", "graphics.exibir_grafico"}
    /\ chamado.mpl

\* The points of a line are by ascending time.
Ascendente(ps) ==
    \A i, j \in 1..Len(ps) :
        i < j => Instante(ps[i].horario) <= Instante(ps[j].horario)

\* C16: exibir_grafico draws one line for each symbol present in the record
\* set, whatever the symbol, the points of each line by ascending time.
C16_UmaSeriePorSimbolo ==
    (GraficoPedido /\ Comparaveis(resultado)) =>
        /\ grafico.exc = ""
        /\ SimbolosTracados(grafico) = Simbolos(resultado)
        /\ Len(grafico.series) = Cardinality(Simbolos(resultado))
        /\ \A i \in 1..Len(grafico.series) :
             /\ Ascendente(grafico.series[i].pontos)
             /\ Len(grafico.series[i].pontos) =
                  Len(SelectSeq(resultado,
                                LAMBDA o : o.moeda = grafico.series[i].moeda))

\* The same of BTC and ETH only: one line for each of the two that is present.
C16_UmaSeriePorSimboloDeReferencia ==
    (GraficoPedido /\ Comparaveis(resultado)) =>
        /\ grafico.exc = ""
        /\ SimbolosTracados(grafico) = Simbolos(resultado) \cap {BTC, ETH}
        /\ Len(grafico.series) = Cardinality(Simbolos(resultado) \cap {BTC, ETH})
        /\ \A i \in 1..Len(grafico.series) :
             /\ Ascendente(grafico.series[i].pontos)
             /\ Len(grafico.series[i].pontos) =
                  Len(SelectSeq(resultado,
                                LAMBDA o : o.moeda = grafico.series[i].moeda))

\* C17: asked, with matplotlib there, for the chart of an empty record set,
\* either exibir_grafico draws nothing, shows nothing, writes no image file,
\* prints the notice of no data and returns without an exception.
C17_VazioNaoDesenha ==
    [][(/\ pc = "api"
        /\ lido
        /\ resultado = <<>>
        /\ chamado'.visao \in {"exibir_grafico", "graphics.exibir_grafico"}
        /\ chamado'.mpl)
       => /\ grafico' = NadaDesenhado("", "nenhum_dado")
          /\ png' = png
          /\ exc' = ""]_vars

C17_Witness ==
    /\ pc = "api"
    /\ lido
    /\ resultado = <<>>
    /\ chamado.visao = "graphics.exibir_grafico"
    /\ chamado.mpl
    /\ grafico.msg = "nenhum_dado"
    /\ ~png

GraficoDesenhado ==
    /\ GraficoPedido
    /\ grafico.exc = ""
    /\ grafico.series # <<>>

\* C19: a chart that is drawn is saved to grafico_cotacoes.png exactly when
\* the backend is not an interactive one; with an interactive backend it is
\* shown in a window and no file is written.
C19_SalvaSseSemTela ==
    GraficoDesenhado =>
        /\ grafico.salvo <=> ~chamado.interativo
        /\ chamado.interativo => grafico.mostrado

\* The same of exibir_grafico of monitor_cripto.py alone.
C19_SalvaSseSemTelaNoMonitor ==
    (GraficoDesenhado /\ chamado.visao = "exibir_grafico") =>
        /\ grafico.salvo <=> ~chamado.interativo
        /\ chamado.interativo => grafico.mostrado

\* C20: when the record set holds BTC and ETH observations, the two lines of
\* the chart are drawn against two different Y axes.
C20_DoisEixos ==
    (GraficoDesenhado /\ {BTC, ETH} \subseteq Simbolos(resultado)) =>
        /\ Len(grafico.series) = 2
        /\ grafico.series[1].eixo # grafico.series[2].eixo

\* The same of exibir_grafico of graphics.py alone.
C20_DoisEixosEmGraphics ==
    (/\ GraficoDesenhado
     /\ chamado.visao = "graphics.exibir_grafico"
     /\ {BTC, ETH} \subseteq Simbolos(resultado)) =>
        /\ Len(grafico.series) = 2
        /\ grafico.series[1].eixo # grafico.series[2].eixo

\* C12, as it is written: a choice that leaves the process at the prompt
\* leaves the store alone; monitoring is left only by its cancellation, back
\* to the prompt; and the process ends only by the choice 0 at the prompt,
\* with exit status 0.
C12_SoZeroEncerra ==
    [][/\ (pc = "menu" /\ pc' \in {"menu", "mon_inicio"}) => disco' = disco
       /\ (pc \in MonPcs /\ pc' \notin MonPcs) =>
              (pc' = "menu" /\ exc' = "KeyboardInterrupt" /\ tela' = "farewell")
       /\ (pc # "fim" /\ pc' = "fim") =>
              (pc = "menu" /\ saida' = "exit0" /\ tela' = "ate_a_proxima")]_vars

\* C12, as the program runs: from the prompt, 1 starts monitoring, 2 and 3
\* run their view and any other input but 0 prints a notice, each leaving the
\* store alone and, unless the view raises, coming back to the prompt;
\* monitoring comes back to the prompt only by its cancellation; exit status
\* 0 comes only of the choice 0 at the prompt; and the process ends besides
\* by Ctrl-C at the prompt, by an exception of a view, and by a failure of
\* the fetch or of the write during monitoring, each time with a status
\* other than 0.
C12_MaquinaDoMenu ==
    [][/\ (pc = "menu" /\ pc' \in {"menu", "mon_inicio"}) =>
              (disco' = disco /\ saida' = "running")
       /\ (pc \in MonPcs /\ pc' = "menu") =>
              (exc' = "KeyboardInterrupt" /\ tela' = "farewell")
       /\ (saida # "exit0" /\ saida' = "exit0") =>
              (pc = "menu" /\ ~pendente /\ pc' = "fim" /\ tela' = "ate_a_proxima")
       /\ (pc # "fim" /\ pc' = "fim") =>
              /\ disco' = disco
              /\ \/ pc = "menu" /\ saida' = "exit0"
                 \/ pc = "menu" /\ saida' = "sigint" /\ exc' = "KeyboardInterrupt"
                 \/ pc = "menu" /\ saida' = "exit1" /\ exc' = "TypeError"
                 \/ /\ pc \in MonPcs
                    /\ saida' = "exit1"
                    /\ FalhaBusca(exc') \/ exc' = "OSError"]_vars

\* Monitoring was started and cancelled, and the history then printed.
C12_Witness ==
    /\ pc = "menu"
    /\ tela = "historico"
    /\ chamado.visao = "imprimir_historico"
    /\ impresso.linhas # <<>>
    /\ saida = "running"

\* C21: a file whose header and rows carry the three columns in any order
\* loads to the observations of the file that carries the same lines in the
\* order data_hora, moeda, preco.
C21_ColunasPorNome ==
    lido => /\ resultado = carregar_historico(ArquivoPermutado(Identidade, linhas))
            /\ exc = ""

C21_Witness ==
    /\ lido
    /\ Len(resultado) = 2
    /\ disco # ArquivoPermutado(Identidade, linhas)
    /\ resultado[1] # resultado[2]

\* The text t without its commas.
SemVirgulas(t) == SelectSeq(t, LAMBDA ch : ch # COMMA)

\* In u, digits and commas, a comma stands at every fourth place counted
\* from the right and nowhere else, and u does not begin with one.
AgrupadoEmMilhares(u) ==
    /\ u # <<>>
    /\ \A i \in 1..Len(u) :
         IF (Len(u) - i + 1) % 4 = 0 THEN u[i] = COMMA ELSE u[i] \in DigitChars

\* C22: of a price that is not negative formatar_preco makes a dollar sign,
\* the integer part in groups of three digits parted by commas, a point and
\* two decimal digits, the amount being the cents nearest to the price.
C22_FormatoDoPreco ==
    formato.texto # <<>> =>
        LET t == formato.texto
            n == Len(t)
            u == SubSeq(t, 2, n - 3)
            centavos == 100 * DigitsVal(SemVirgulas(u)) + DigitsVal(SubSeq(t, n - 1, n))
        IN  /\ n >= 5
            /\ t[1] = "$"
            /\ t[n - 2] = "."
            /\ t[n - 1] \in DigitChars /\ t[n] \in DigitChars
            /\ AgrupadoEmMilhares(u)
            /\ SemVirgulas(u) = NatText(DigitsVal(SemVirgulas(u)))
            /\ Abs(10 * centavos - formato.valor) <= 5
            /\ formato.valor = 1234500 =>
                 t = <<"$", "1", COMMA, "2", "3", "4", ".", "5", "0">>
            /\ formato.valor = 0 => t = <<"$", "0", ".", "0", "0">>
            /\ formato.valor = 1000996 =>
                 t = <<"$", "1", COMMA, "0", "0", "1", ".", "0", "0">>

C22_Witness ==
    /\ formato.valor = 1234567890
    /\ formato.texto = <<"$", "1", COMMA, "2", "3", "4", COMMA, "5", "6", "7",
                         ".", "8", "9">>

\* The last records of the file are those of the cycle, one for each pair
\* of precos, in the order of precos, under the horario of the cycle.
CicloGravado(d, h, ps) ==
    LET rows == CsvRows(d.texto)
        n == Len(ps)
    IN  /\ Len(rows) >= n
        /\ \A i \in 1..n :
             rows[Len(rows) - n + i] =
                 CamposDe([horario |-> h, moeda |-> ps[i].moeda, preco |-> ps[i].preco])

\* C23: inside iniciar_monitoramento the steps of a cycle follow one
\* another in one order: the fetch, which writes nothing, ends before the
\* first append starts; the appends go one at a time, each from open to
\* close; the sleep starts when every pair of the cycle is in the file and
\* no file is open; and the next fetch starts when the sleep has run its
\* interval.  The file changes inside an append only.
C23_OrdemDoCiclo ==
    [][/\ (pc \in MonPcs /\ pc' \in MonPcs /\ pc' # pc) =>
            \/ /\ pc = "mon_inicio" /\ pc' = "mon_grava"
               /\ disco' = disco /\ buf' = <<>> /\ idx' = 1
            \/ /\ pc = "mon_grava" /\ pc' = "sv_open"
               /\ idx <= Len(precos) /\ buf = <<>> /\ disco' = disco
            \/ /\ pc = "sv_open" /\ pc' \in {"sv_header", "sv_row"}
            \/ /\ pc = "sv_header" /\ pc' = "sv_row"
            \/ /\ pc = "sv_row" /\ pc' = "sv_close"
            \/ /\ pc = "sv_close" /\ pc' = "mon_grava"
               /\ idx' = idx + 1 /\ buf' = <<>>
            \/ /\ pc = "mon_grava" /\ pc' = "mon_dorme"
               /\ idx = Len(precos) + 1 /\ buf = <<>>
               /\ CicloGravado(disco, horario, precos)
               /\ disco' = disco /\ relogio' = relogio
            \/ /\ pc = "mon_dorme" /\ pc' = "mon_inicio"
               /\ relogio' = relogio + INTERVALO_ATUALIZACAO_SEGUNDOS
               /\ disco' = disco
       /\ disco' # disco => pc \in {"sv_open", "sv_header", "sv_row", "sv_close"}
       /\ (pc \in MonPcs /\ pc' = pc) => (disco' = disco /\ relogio' = relogio)]_vars

\* The second cycle of a session has fetched, after the sleep of the first.
C23_Witness ==
    /\ pc = "mon_grava"
    /\ idx = 1
    /\ relogio >= INTERVALO_ATUALIZACAO_SEGUNDOS
    /\ NumLinhas(disco) = 3
    /\ CiclosInteiros(disco)

\* The pairs of the running cycle that are in the file already.
ParesGravados == IF pc \in {"mon_grava", "sv_open", "sv_header", "sv_row", "sv_close"}
                 THEN idx - 1 ELSE 0

\* C24: a cycle that reaches its sleep has appended one line for each pair
\* the fetch returned, BTC then ETH, and none besides; so, on a store that
\* was fresh and with no cycle cut short, the file holds two data lines for
\* each completed cycle, whether the prices changed or not.
C24_DuasLinhasPorCiclo ==
    /\ pc = "mon_dorme" =>
         /\ Len(precos) = 2
         /\ precos[1].moeda = BTC /\ precos[2].moeda = ETH
         /\ CicloGravado(disco, horario, precos)
    /\ SemCorte =>
         /\ Len(LinhasDeDados(disco)) = 2 * ciclos + ParesGravados
         /\ pc = "mon_dorme" =>
              Cardinality({i \in 1..Len(LinhasDeDados(disco)) :
                             LinhasDeDados(disco)[i][1] = isoformat(horario)}) = 2

\* Two cycles are complete, the second with the prices of the first.
C24_Witness ==
    /\ pc = "mon_dorme"
    /\ SemCorte
    /\ ciclos = 2
    /\ Len(LinhasDeDados(disco)) = 4
    /\ LinhasDeDados(disco)[1][3] = LinhasDeDados(disco)[3][3]
    /\ LinhasDeDados(disco)[1][1] # LinhasDeDados(disco)[3][1]

\* C25: the timestamp of the lines of a cycle is an aware one and is not
\* earlier than the moment the fetch of the cycle returned (no time passes
\* between that moment and the sleep).
C25_HorarioDepoisDaBusca ==
    pc = "mon_dorme" =>
        /\ CicloGravado(disco, horario, precos)
        /\ horario.aware
        /\ horario.s >= relogio

\* The timestamp is an aware one and not later than the return of the fetch.
C25_HorarioAntesDaBusca ==
    pc = "mon_dorme" =>
        /\ CicloGravado(disco, horario, precos)
        /\ horario.aware
        /\ horario.s <= relogio

\* The instants of the data lines of the file, in the order of the file.
RECURSIVE InstantesDe(_, _)
InstantesDe(ls, n) ==
    IF n = 0 THEN <<>>
    ELSE Append(InstantesDe(ls, n - 1), Instante(fromisoformat(ls[n][1]).v))

TemposDe(d) ==
    LET ls == LinhasDeDados(d)
    IN  InstantesDe(ls, Len(ls))

\* The instants of t never decrease.
NaoDecresce(t) == \A i, j \in 1..Len(t) : i < j => t[i] <= t[j]

\* C28: the data lines of the file are in an order in which the timestamps
\* never decrease, and the lines of one cycle carry one timestamp: the file
\* starts so, and every step that changes the file or reaches the sleep of
\* a cycle leaves it so.
C28_TemposNaoDecrescem ==
    /\ NaoDecresce(TemposDe(disco))
    /\ [][/\ disco' # disco => \A t \in {TemposDe(disco')} : NaoDecresce(t)
          /\ pc' = "mon_dorme" =>
                \A t \in {TemposDe(disco')} :
                    /\ Len(t) >= 2
                    /\ t[Len(t) - 1] = t[Len(t)]
                    /\ t[Len(t)] = Instante(horario')]_vars

\* Two cycles of one session are in the file, the second later than the first.
C28_Witness ==
    /\ pc = "mon_dorme"
    /\ SemCorte
    /\ ciclos = 2
    /\ Len(TemposDe(disco)) = 4
    /\ TemposDe(disco)[2] < TemposDe(disco)[3]

\* C27: the store file changes inside salvar_cotacao only, and so inside
\* monitoring only: the choices 2 and 3 of the menu, which load the history
\* and print it or draw it, and every other step at the prompt, leave the
\* file as it is, and a file that is missing is not made by them.
C27_LerNaoEscreve ==
    [][/\ disco' # disco => pc \in {"sv_open", "sv_header", "sv_row", "sv_close"}
       /\ pc = "menu" => (disco' = disco /\ disco'.existe = disco.existe)]_vars

\* The chart of a history of two cycles was drawn, the file being what it was.
C27_Witness ==
    /\ pc = "menu"
    /\ chamado.visao = "exibir_grafico"
    /\ Len(grafico.series) = 2
    /\ disco.existe
    /\ Len(resultado) = 4
    /\ Len(LinhasDeDados(disco)) = 4
\* The clock and the file of the model have room for the sleep of the cycle
\* and for the cycle after it.
DentroDoHorizonte ==
    /\ relogio + INTERVALO_ATUALIZACAO_SEGUNDOS <= MaxRelogio
    /\ NumLinhas(disco) + 2 <= MaxLinhas

\* C26: iniciar_monitoramento is left only by KeyboardInterrupt or by the
\* exception of a fetch or of a write that failed; while none of these comes,
\* a cycle that has fetched reaches its sleep and a sleep is followed by the
\* fetch of another cycle; and once an interrupt has arrived, wherever the
\* loop is, the sleep included, the loop returns to the prompt.
C26_LacoSemFim ==
    /\ [][(pc \in MonPcs /\ pc' \notin MonPcs) =>
             (exc' = "KeyboardInterrupt" \/ FalhaBusca(exc') \/ exc' = "OSError")]_vars
    /\ (pc \in MonPcs \ {"mon_inicio", "mon_dorme"}) ~>
             (pc = "mon_dorme" \/ pc \notin MonPcs)
    /\ (pc = "mon_dorme" /\ DentroDoHorizonte) ~>
             (pc = "mon_grava" \/ pc \notin MonPcs)
    /\ (pendente /\ pc \in MonPcs) ~> (pc = "menu" /\ tela = "farewell")

\* A second fetch has returned, after the sleep of the first cycle.
C26_Witness ==
    /\ pc = "mon_grava"
    /\ idx = 1
    /\ ciclos = 1
    /\ SemCorte
    /\ exc = ""

====
